---- MODULE Spec2Model ----
(***************************************************************************)
(* Model of mautrix_telegram/formatter.py (MatrixParser,                   *)
(* matrix_to_telegram, _telegram_to_matrix, telegram_event_to_matrix) and  *)
(* of mautrix_telegram/commands/handler.py.                                *)
(*                                                                         *)
(* Strings are sequences of one-character strings.  Astral stands for one  *)
(* codepoint outside the Basic Multilingual Plane (U+1F600).               *)
(***************************************************************************)
EXTENDS Integers, Sequences, FiniteSets, TLC

VARIABLES
    \* _telegram_to_matrix: the call's position, its arguments and its locals
    tg_pc, tg_text, tg_entities, tg_bytes, html, last_offset, tg_i,
    \* what telegram_to_matrix returned, how many calls were made on the same
    \* arguments, and what the first of them returned
    tg_result, tg_calls, tg_first,
    \* MatrixParser: self.text, self.entities, self._building_entities,
    \* self._open_tags, self._open_tags_meta, self._previous_ended_line
    text, entities, building_entities, open_tags, open_tags_meta,
    previous_ended_line,
    \* the tags and text chunks HTMLParser.feed has handed to the parser so far
    fed,
    \* telegram_event_to_matrix: the coroutine's position, its arguments evt
    \* and (native_replies, message_link_in_reply, reply_text), its locals
    \* text, html, relates_to and msg, what get_event answered and how many
    \* times it was called
    ev_pc, ev_evt, ev_opts, ev_text, ev_html, ev_relates_to, ev_msg, ev_fetch,
    ev_fetches,
    \* a conversion there and back: its position, its direction and its input
    \* (markup or text, and the entities that come with a text)
    rt_pc, rt_dir, rt_in, rt_spans,
    \* CommandHandler.handle: the coroutine's position, the registry
    \* command_handlers (the arguments each name was registered with), the
    \* event and its sender, the handler that was looked up, what handle
    \* awaits, the kinds of the replies sent by evt.reply and the names of
    \* the functions invoked
    cmd_pc, command_handlers, cmd_evt, cmd_command, cmd_await, cmd_replies,
    cmd_invoked

tgvars == <<tg_pc, tg_text, tg_entities, tg_bytes, html, last_offset, tg_i,
            tg_result, tg_calls, tg_first>>
mxvars == <<text, entities, building_entities, open_tags, open_tags_meta,
            previous_ended_line, fed>>
evvars == <<ev_pc, ev_evt, ev_opts, ev_text, ev_html, ev_relates_to, ev_msg,
            ev_fetch, ev_fetches>>
rtvars == <<rt_pc, rt_dir, rt_in, rt_spans>>
cmdvars == <<cmd_pc, command_handlers, cmd_evt, cmd_command, cmd_await,
             cmd_replies, cmd_invoked>>
vars == <<tgvars, mxvars, evvars, rtvars, cmdvars>>

(* ------------------------------ bounds -------------------------------- *)
\* longest Telegram message text (in codepoints) given to the renderer
MaxTextLen == 2
\* longest entity list given to the renderer
MaxSpans == 2
\* most tags and text chunks fed to the parser: inline markup, lists, anchors
MaxInlineTokens == 5
MaxListTokens == 5
MaxAnchorTokens == 4
\* most items of the ordered list fed to the parser item by item
MaxItems == 10
\* longest message text (in codepoints) of an event given to the transformer
MaxEventTextLen == 1
\* longest text (in codepoints) converted there and back
MaxPlainLen == 3
\* longest text (in codepoints) and longest entity list converted there and
\* back with its entities
MaxRoundLen == 2
MaxRoundSpans == 2

(* --------------------------- string helpers --------------------------- *)
Astral == "U+1F600"
NL == "\n"

Min(a, b) == IF a < b THEN a ELSE b

\* Python s[i:j] for 0 <= i, 0 <= j (clamped to the length)
Slice(s, i, j) ==
    LET lo == Min(i, Len(s))
        hi == Min(j, Len(s))
    IN  IF lo >= hi THEN <<>> ELSE SubSeq(s, lo + 1, hi)

\* Python s[i:]
From(s, i) == Slice(s, i, Len(s))

\* Python s.startswith(p)
StartsWith(s, p) == Len(s) >= Len(p) /\ SubSeq(s, 1, Len(p)) = p

\* Python s.endswith(p)
EndsWith(s, p) == Len(s) >= Len(p) /\ SubSeq(s, Len(s) - Len(p) + 1, Len(s)) = p

AmpRef == <<"&", "a", "m", "p", ";">>
LtRef == <<"&", "l", "t", ";">>
GtRef == <<"&", "g", "t", ";">>
QuotRef == <<"&", "q", "u", "o", "t", ";">>
AposRef == <<"&", "#", "x", "2", "7", ";">>
StrongOpen == <<"<", "s", "t", "r", "o", "n", "g", ">">>
StrongClose == <<"<", "/", "s", "t", "r", "o", "n", "g", ">">>
EmOpen == <<"<", "e", "m", ">">>
EmClose == <<"<", "/", "e", "m", ">">>
CodeOpen == <<"<", "c", "o", "d", "e", ">">>
CodeClose == <<"<", "/", "c", "o", "d", "e", ">">>
PreOpen == <<"<", "p", "r", "e", ">">>
PreClose == <<"<", "/", "p", "r", "e", ">">>
CodeLangOpen == <<"<", "c", "o", "d", "e", " ", "c", "l", "a", "s", "s", "=", "'", "l", "a", "n", "g", "u", "a", "g", "e", "-">>
AttrEnd == <<"'", ">">>
AnchorOpen == <<"<", "a", " ", "h", "r", "e", "f", "=", "'">>
AnchorClose == <<"<", "/", "a", ">">>
MatrixTo == <<"h", "t", "t", "p", "s", ":", "/", "/", "m", "a", "t", "r", "i", "x", ".", "t", "o", "/", "#", "/">>
MailTo == <<"m", "a", "i", "l", "t", "o", ":">>
Https == <<"h", "t", "t", "p", "s", ":", "/", "/">>
Http == <<"h", "t", "t", "p", ":", "/", "/">>
Ftp == <<"f", "t", "p", ":", "/", "/">>
Magnet == <<"m", "a", "g", "n", "e", "t", ":", "/", "/">>
FontBlueOpen == <<"<", "f", "o", "n", "t", " ", "c", "o", "l", "o", "r", "=", "'", "b", "l", "u", "e", "'", ">">>
FontClose == <<"<", "/", "f", "o", "n", "t", ">">>

(* ------------------------ TEMP_ENC = utf-16-le ------------------------ *)
\* One character as UTF-16 little-endian bytes: a BMP character is its low
\* byte (named by the character) and the high byte 00; U+1F600 is the
\* surrogate pair D83D DE00.
EncodeChar(c) == IF c = Astral THEN <<"3D", "D8", "00", "DE">> ELSE <<c, "00">>

RECURSIVE Encode(_)
\* text.encode(TEMP_ENC)
Encode(s) == IF s = <<>> THEN <<>> ELSE EncodeChar(Head(s)) \o Encode(Tail(s))

RECURSIVE DecodeOk(_)
\* whether bytes.decode(TEMP_ENC) returns (it raises UnicodeDecodeError on a
\* truncated unit and on a surrogate that is not half of a pair)
DecodeOk(b) ==
    IF b = <<>> THEN TRUE
    ELSE IF Len(b) < 2 THEN FALSE
    ELSE IF b[2] = "D8"
         THEN Len(b) >= 4 /\ b[4] = "DE" /\ DecodeOk(SubSeq(b, 5, Len(b)))
    ELSE IF b[2] = "DE" THEN FALSE
    ELSE DecodeOk(SubSeq(b, 3, Len(b)))

RECURSIVE Decode(_)
\* bytes.decode(TEMP_ENC), where DecodeOk
Decode(b) ==
    IF Len(b) < 2 THEN <<>>
    ELSE IF b[2] = "D8" THEN <<Astral>> \o Decode(SubSeq(b, 5, Len(b)))
    ELSE <<b[1]>> \o Decode(SubSeq(b, 3, Len(b)))

(* ----------------------------- html.escape ---------------------------- *)
EscapeChar(c) ==
    CASE c = "&" -> AmpRef
      [] c = "<" -> LtRef
      [] c = ">" -> GtRef
      [] c = "\"" -> QuotRef
      [] c = "'" -> AposRef
      [] OTHER -> <<c>>

RECURSIVE escape(_)
escape(s) == IF s = <<>> THEN <<>> ELSE EscapeChar(Head(s)) \o escape(Tail(s))

(* -------------------- identities (user.py, puppet.py) ------------------ *)
\* None where a string is expected
None == <<>>
NoId == 0

\* The bridge knows three identities: a Matrix user, a puppet with a
\* Telegram username, and a puppet without one.
Users == { [mxid |-> <<"@", "u">>, username |-> None, tgid |-> 1] }
Puppets == { [mxid |-> <<"@", "p">>, username |-> <<"x">>, tgid |-> 2, displayname |-> <<"P">>],
             [mxid |-> <<"@", "q">>, username |-> None, tgid |-> 3, displayname |-> None] }

\* a Telegram user id no identity has
UnknownTgid == 9

Found(S) == S # {}
The(S) == CHOOSE x \in S : TRUE

UserFindByUsername(name) == {x \in Users : x.username # None /\ x.username = name}
PuppetFindByUsername(name) == {x \in Puppets : x.username # None /\ x.username = name}
UserGetByTgid(id) == {x \in Users : x.tgid = id}
PuppetGet(id) == {x \in Puppets : x.tgid = id}
UserGetByMxid(mxid) == {x \in Users : x.mxid = mxid}
PuppetGetByMxid(mxid) == {x \in Puppets : x.mxid = mxid}

(* --------------------------- telethon.tl.types ------------------------ *)
\* a MessageEntity* object; the attributes a type does not have are None
Entity(type, offset, length, language, url, user_id) ==
    [type |-> type, offset |-> offset, length |-> length,
     language |-> language, url |-> url, user_id |-> user_id]

(* ----------------------------- html.unescape -------------------------- *)
\* The character references html.unescape replaces, of those html.escape
\* writes: a name with its semicolon, or (HTML5) a bare name as a prefix.
RefNames ==
    {<<<<"l", "t">>, "<">>, <<<<"g", "t">>, ">">>, <<<<"a", "m", "p">>, "&">>,
     <<<<"q", "u", "o", "t">>, "\"">>}
NumericApos == <<"#", "x", "2", "7", ";">>

\* the reference at the head of s (s follows an "&"): <<replacement, length>>,
\* or <<>> when s starts with no reference
RefAt(s) ==
    IF StartsWith(s, NumericApos) THEN <<"'", Len(NumericApos)>>
    ELSE LET hits == {r \in RefNames : StartsWith(s, r[1])}
         IN  IF hits = {} THEN <<>>
             ELSE LET r == CHOOSE r \in hits : \A q \in hits : Len(q[1]) <= Len(r[1])
                      semi == Len(s) > Len(r[1]) /\ s[Len(r[1]) + 1] = ";"
                  IN  <<r[2], Len(r[1]) + (IF semi THEN 1 ELSE 0)>>

RECURSIVE unescape(_)
unescape(s) ==
    IF s = <<>> THEN <<>>
    ELSE IF Head(s) = "&" /\ RefAt(Tail(s)) # <<>>
         THEN <<RefAt(Tail(s))[1]>> \o unescape(From(s, 1 + RefAt(Tail(s))[2]))
    ELSE <<Head(s)>> \o unescape(Tail(s))

(* ----------------------------- MatrixParser --------------------------- *)
\* an entry of _open_tags_meta: the integer 0 or a list counter, a string, or None
MetaInt(n) == [t |-> "int", n |-> n, s |-> <<>>]
MetaStr(s) == [t |-> "str", n |-> 0, s |-> s]
MetaNone == [t |-> "none", n |-> 0, s |-> <<>>]
\* a variant of the truthiness below that takes no string as true
TruthyOnlyInt(m) == m.t = "int" /\ m.n # 0
\* Python truthiness of such an entry
Truthy(m) == (m.t = "int" /\ m.n # 0) \/ (m.t = "str" /\ m.s # <<>>)

\* the attributes of a start tag: the names present and their values
Attrs(names, href, class) == [names |-> names, href |-> href, class |-> class]
NoAttrs == Attrs({}, None, None)

NoEntities == [t \in {} |-> 0]
\* lines 54-62: the parser after construction
NewParser ==
    [text |-> <<>>, entities |-> <<>>, building |-> NoEntities,
     tags |-> <<>>, meta |-> <<>>, pel |-> TRUE]

\* line 52: mention_regex.search(url), group 1 ("" when there is no match)
RECURSIVE MentionMxid(_)
MentionMxid(url) ==
    IF Len(url) < Len(MatrixTo) + 2 THEN None
    ELSE IF StartsWith(url, MatrixTo \o <<"@">>) /\ url[Len(MatrixTo) + 2] # NL
         THEN LET rest == From(url, Len(MatrixTo))
                  nl == {i \in 1..Len(rest) : rest[i] = NL}
              IN  IF nl = {} THEN rest
                  ELSE SubSeq(rest, 1, (CHOOSE i \in nl : \A j \in nl : i <= j) - 1)
    ELSE MentionMxid(Tail(url))

\* get_starttag_text() of an anchor as the bridge's own renderer writes it
StartTagText(attrs) == AnchorOpen \o attrs.href \o AttrEnd

\* lines 86-116: what an anchor resolves to
\*   [span |-> entity type or "", url |-> meta entry, user_id, href, early |-> return]
Anchor(attrs) ==
    IF "href" \notin attrs.names
    THEN [early |-> TRUE, type |-> "", meta |-> MetaInt(0), user_id |-> NoId, url |-> None]
    ELSE LET url == attrs.href
             mxid == MentionMxid(url)
             found == IF Found(PuppetGetByMxid(mxid)) THEN PuppetGetByMxid(mxid)
                      ELSE UserGetByMxid(mxid)
         IN  IF mxid # None
             THEN IF ~Found(found)
                  THEN [early |-> TRUE, type |-> "", meta |-> MetaInt(0),
                        user_id |-> NoId, url |-> None]
                  ELSE IF The(found).username # None
                  THEN [early |-> FALSE, type |-> "Mention",
                        meta |-> MetaStr(<<"@">> \o The(found).username),
                        user_id |-> NoId, url |-> None]
                  ELSE [early |-> FALSE, type |-> "MentionName", meta |-> MetaStr(url),
                        user_id |-> The(found).tgid, url |-> None]
             ELSE IF StartsWith(url, MailTo)
             THEN [early |-> FALSE, type |-> "Email",
                   meta |-> MetaStr(From(url, Len(MailTo))), user_id |-> NoId, url |-> None]
             ELSE IF StartTagText(attrs) = url
             THEN [early |-> FALSE, type |-> "Url", meta |-> MetaStr(url),
                   user_id |-> NoId, url |-> None]
             ELSE [early |-> FALSE, type |-> "TextUrl", meta |-> MetaNone,
                   user_id |-> NoId, url |-> url]

\* a variant of the offset below that counts codepoints: len(self.text)
OffsetByCodepoints(txt) == Len(txt)
\* line 120: the offset of a new entity
TextOffset(txt) == Len(Encode(txt)) \div 2

\* lines 118-121
StartEntity(ps, tag, type, language, url, user_id) ==
    IF type # "" /\ tag \notin DOMAIN ps.building
    THEN [t \in DOMAIN ps.building \cup {tag} |->
            IF t = tag THEN Entity(type, TextOffset(ps.text), 0, language, url, user_id)
            ELSE ps.building[t]]
    ELSE ps.building

\* lines 64-121: handle_starttag(tag, attrs)
handle_starttag(ps, tag, attrs) ==
    LET pushed == [ps EXCEPT !.tags = <<tag>> \o @, !.meta = <<MetaInt(0)>> \o @]
    IN  CASE tag \in {"strong", "b"} ->
               [pushed EXCEPT !.building = StartEntity(ps, tag, "Bold", None, None, NoId)]
          [] tag \in {"em", "i"} ->
               [pushed EXCEPT !.building = StartEntity(ps, tag, "Italic", None, None, NoId)]
          [] tag = "code" ->
               IF "pre" \in DOMAIN ps.building
               THEN IF "class" \in attrs.names
                    THEN [pushed EXCEPT !.building["pre"].language =
                                            From(attrs.class, Len(<<"l","a","n","g","u","a","g","e","-">>))]
                    ELSE pushed
               ELSE [pushed EXCEPT !.building = StartEntity(ps, tag, "Code", None, None, NoId)]
          [] tag = "pre" ->
               [pushed EXCEPT !.building = StartEntity(ps, tag, "Pre", <<>>, None, NoId)]
          [] tag = "a" ->
               LET a == Anchor(attrs)
               IN  IF a.early THEN pushed
                   ELSE [pushed EXCEPT
                           !.meta = <<a.meta>> \o Tail(@),
                           !.building = StartEntity(ps, tag, a.type, None, a.url, a.user_id)]
          [] OTHER -> pushed

\* lines 123-128
_list_depth(tags) == Cardinality({i \in 1..Len(tags) : tags[i] \in {"ol", "ul"}})

RECURSIVE StripLeft(_)
StripLeft(s) == IF s # <<>> /\ Head(s) = NL THEN StripLeft(Tail(s)) ELSE s
RECURSIVE StripRight(_)
StripRight(s) ==
    IF s # <<>> /\ s[Len(s)] = NL THEN StripRight(SubSeq(s, 1, Len(s) - 1)) ELSE s
\* s.strip("\n")
Strip(s) == StripRight(StripLeft(s))

Spaces(n) == [i \in 1..n |-> " "]
Digit(d) == <<"0", "1", "2", "3", "4", "5", "6", "7", "8", "9">>[d + 1]
RECURSIVE Str(_)
\* str(n) for n >= 0
Str(n) == IF n < 10 THEN <<Digit(n)>> ELSE Str(n \div 10) \o <<Digit(n % 10)>>

\* lines 140-152: a list item's text with its prefix
\*   [drop |-> the chunk is discarded, text, fmt |-> list_format_offset, meta]
ListItem(ps, unescaped) ==
    LET list_type == ps.tags[2]
        depth == _list_depth(ps.tags)
        indent == IF depth >= 1 THEN Spaces((depth - 1) * 4) ELSE <<>>
        stripped == Strip(unescaped)
        n == ps.meta[2].n + 1
    IN  IF stripped = <<>>
        THEN [drop |-> TRUE, text |-> stripped, fmt |-> 0, meta |-> ps.meta]
        ELSE IF list_type = "ul"
        THEN [drop |-> FALSE, text |-> indent \o <<"*", " ">> \o stripped,
              fmt |-> Len(indent) + 2, meta |-> ps.meta]
        ELSE IF list_type = "ol"
        THEN [drop |-> FALSE, text |-> indent \o Str(n) \o <<".", " ">> \o stripped,
              fmt |-> Len(indent) + 3, meta |-> [ps.meta EXCEPT ![2] = MetaInt(n)]]
        ELSE [drop |-> FALSE, text |-> stripped, fmt |-> 0, meta |-> ps.meta]

\* lines 132-152: the text a chunk becomes before it is accounted
Chunk(ps, data) ==
    LET unescaped == unescape(data)
        previous_tag == IF Len(ps.tags) > 0 THEN ps.tags[1] ELSE ""
    IN  IF previous_tag = "a"
        THEN [drop |-> FALSE,
              text |-> IF Truthy(ps.meta[1]) THEN ps.meta[1].s ELSE unescaped,
              fmt |-> 0, meta |-> ps.meta]
        ELSE IF Len(ps.tags) > 1 /\ ps.pel /\ previous_tag = "li"
        THEN ListItem(ps, unescaped)
        ELSE [drop |-> FALSE, text |-> unescaped, fmt |-> 0, meta |-> ps.meta]

\* lines 153-156: what a chunk adds to every entity under construction
Grow(e, chunk_text, fmt) ==
    [e EXCEPT !.length = @ + TextOffset(Strip(chunk_text)), !.offset = @ + fmt]

\* lines 130-163: handle_data(text)
handle_data(ps, data) ==
    LET c == Chunk(ps, data)
    IN  IF c.drop THEN ps
        ELSE [ps EXCEPT
                !.meta = c.meta,
                !.building = [t \in DOMAIN ps.building |-> Grow(ps.building[t], c.text, c.fmt)],
                !.pel = EndsWith(c.text, <<NL>>),
                !.text = @ \o c.text]

\* lines 165-175: handle_endtag(tag)
handle_endtag(ps, tag) ==
    LET popped == IF ps.tags # <<>>
                  THEN [ps EXCEPT !.tags = Tail(@), !.meta = Tail(@)]
                  ELSE ps
        trimmed == IF tag \in {"ul", "ol"} /\ EndsWith(ps.text, <<NL>>)
                   THEN [popped EXCEPT !.text = SubSeq(@, 1, Len(@) - 1)]
                   ELSE popped
    IN  IF tag \in DOMAIN ps.building
        THEN [trimmed EXCEPT
                !.building = [t \in DOMAIN ps.building \ {tag} |-> ps.building[t]],
                !.entities = Append(@, ps.building[tag])]
        ELSE trimmed

\* a start tag, a text chunk or an end tag, as HTMLParser hands it over
StartTok(tag, attrs) == [kind |-> "start", tag |-> tag, attrs |-> attrs, data |-> <<>>]
DataTok(data) == [kind |-> "data", tag |-> "", attrs |-> NoAttrs, data |-> data]
EndTok(tag) == [kind |-> "end", tag |-> tag, attrs |-> NoAttrs, data |-> <<>>]

Handle(ps, tok) ==
    CASE tok.kind = "start" -> handle_starttag(ps, tok.tag, tok.attrs)
      [] tok.kind = "data" -> handle_data(ps, tok.data)
      [] OTHER -> handle_endtag(ps, tok.tag)

RECURSIVE ParseFrom(_, _)
ParseFrom(ps, toks) ==
    IF toks = <<>> THEN ps ELSE ParseFrom(Handle(ps, Head(toks)), Tail(toks))
\* the parser after it was fed toks
Parsed(toks) == ParseFrom(NewParser, toks)

ParserState ==
    [text |-> text, entities |-> entities, building |-> building_entities,
     tags |-> open_tags, meta |-> open_tags_meta, pel |-> previous_ended_line]

Becomes(ps) ==
    /\ text' = ps.text
    /\ entities' = ps.entities
    /\ building_entities' = ps.building
    /\ open_tags' = ps.tags
    /\ open_tags_meta' = ps.meta
    /\ previous_ended_line' = ps.pel

\* HTMLParser calls handle_starttag
StartTag(toks, max) ==
    /\ Len(fed) < max
    /\ \E tok \in toks :
         /\ tok.kind = "start"
         /\ Becomes(handle_starttag(ParserState, tok.tag, tok.attrs))
         /\ fed' = Append(fed, tok)
    /\ UNCHANGED <<tgvars, evvars, rtvars, cmdvars>>

\* HTMLParser calls handle_data
Data(toks, max) ==
    /\ Len(fed) < max
    /\ \E tok \in toks :
         /\ tok.kind = "data"
         /\ Becomes(handle_data(ParserState, tok.data))
         /\ fed' = Append(fed, tok)
    /\ UNCHANGED <<tgvars, evvars, rtvars, cmdvars>>

\* HTMLParser calls handle_endtag
EndTag(toks, max) ==
    /\ Len(fed) < max
    /\ \E tok \in toks :
         /\ tok.kind = "end"
         /\ Becomes(handle_endtag(ParserState, tok.tag))
         /\ fed' = Append(fed, tok)
    /\ UNCHANGED <<tgvars, evvars, rtvars, cmdvars>>

\* line 180: parser = MatrixParser()
InitParser ==
    /\ text = NewParser.text
    /\ entities = NewParser.entities
    /\ building_entities = NewParser.building
    /\ open_tags = NewParser.tags
    /\ open_tags_meta = NewParser.meta
    /\ previous_ended_line = NewParser.pel
    /\ fed = <<>>

(* ------------------------- _telegram_to_matrix ------------------------ *)
\* the value telegram_to_matrix returns: a string, or None after an exception
Returned(s) == [ok |-> TRUE, html |-> s]
Failure == [ok |-> FALSE, html |-> <<>>]

\* lines 315-316: the entity object itself is rescaled to byte indexes
Rescale(e) == [e EXCEPT !.offset = 2 * @, !.length = 2 * @]

\* lines 342-347 and 353-358: the mxid of a user, else of a puppet, else None
MxidOf(users, puppets) ==
    IF Found(users) THEN The(users).mxid
    ELSE IF Found(puppets) THEN The(puppets).mxid
    ELSE None

HasScheme(url) ==
    StartsWith(url, Https) \/ StartsWith(url, Http) \/ StartsWith(url, Ftp)
        \/ StartsWith(url, Magnet)

\* lines 366-368
LinkTarget(e, entity_text) ==
    LET url == IF e.type = "TextUrl" THEN escape(e.url) ELSE entity_text
    IN  IF HasScheme(url) THEN url ELSE Http \o url

MentionLink(mxid, entity_text) ==
    AnchorOpen \o MatrixTo \o mxid \o AttrEnd \o entity_text \o AnchorClose

\* lines 326-375: what one entity appends to html, and skip_entity
RenderEntity(e, entity_text) ==
    CASE e.type = "Bold" ->
           [skip |-> FALSE, out |-> StrongOpen \o entity_text \o StrongClose]
      [] e.type = "Italic" ->
           [skip |-> FALSE, out |-> EmOpen \o entity_text \o EmClose]
      [] e.type = "Code" ->
           [skip |-> FALSE, out |-> CodeOpen \o entity_text \o CodeClose]
      [] e.type = "Pre" ->
           [skip |-> FALSE,
            out |-> IF e.language # None /\ e.language # <<>>
                    THEN PreOpen \o CodeLangOpen \o e.language \o AttrEnd
                             \o entity_text \o CodeClose \o PreClose
                    ELSE PreOpen \o CodeOpen \o entity_text \o CodeClose \o PreClose]
      [] e.type = "Mention" ->
           LET username == From(entity_text, 1)
               mxid == MxidOf(UserFindByUsername(username), PuppetFindByUsername(username))
           IN  IF mxid # None
               THEN [skip |-> FALSE, out |-> MentionLink(mxid, entity_text)]
               ELSE [skip |-> TRUE, out |-> <<>>]
      [] e.type = "MentionName" ->
           LET mxid == MxidOf(UserGetByTgid(e.user_id), PuppetGet(e.user_id))
           IN  IF mxid # None
               THEN [skip |-> FALSE, out |-> MentionLink(mxid, entity_text)]
               ELSE [skip |-> TRUE, out |-> <<>>]
      [] e.type = "Email" ->
           [skip |-> FALSE,
            out |-> AnchorOpen \o MailTo \o entity_text \o AttrEnd
                        \o entity_text \o AnchorClose]
      [] e.type \in {"TextUrl", "Url"} ->
           [skip |-> FALSE,
            out |-> AnchorOpen \o LinkTarget(e, entity_text) \o AttrEnd
                        \o entity_text \o AnchorClose]
      [] e.type = "BotCommand" ->
           [skip |-> FALSE, out |-> FontBlueOpen \o <<"!">> \o From(entity_text, 1)]
      [] e.type = "Hashtag" ->
           [skip |-> FALSE, out |-> FontBlueOpen \o entity_text \o FontClose]
      [] OTHER -> [skip |-> TRUE, out |-> <<>>]

\* a variant of the test below that lets every entity through
OverlapsNever(e, last) == FALSE
\* line 319: the entity starts before the cursor
Overlaps(e, last) == e.offset < last

\* line 376
NextOffset(e, skip_entity) == e.offset + (IF skip_entity THEN 0 ELSE e.length)

\* line 377: the text after the last entity
TrailingText(bytes, last) == Decode(From(bytes, last))

\* whether the caller's list has an entity the loop has not reached yet: the
\* list is revealed one entity at a time, as the loop reads it
Stored == tg_i <= Len(tg_entities)
\* the entities a caller can pass for a text: in the text's bounds, length >= 1
SpanShapes ==
    {<<"Bold", None, None, NoId>>, <<"Mention", None, None, NoId>>,
     <<"MentionName", None, None, UnknownTgid>>, <<"Unknown", None, None, NoId>>,
     <<"BotCommand", None, None, NoId>>}
Units(s) == Len(Encode(s)) \div 2
SpansOf(shapes, s) ==
    {Entity(k[1], o, l, k[2], k[3], k[4]) :
        k \in shapes, o \in 0..(Units(s) - 1), l \in 1..Units(s)}
InBounds(e, s) == e.offset + e.length <= Units(s)
\* lines 317-376: the loop's body for the rescaled entity e, on the locals
\*   [html, last_offset, raised |-> a decode raised UnicodeDecodeError]
LoopBody(bytes, loc, e) ==
    LET gap == Slice(bytes, loc.last_offset, e.offset)
        own == Slice(bytes, e.offset, e.offset + e.length)
    IN  IF Overlaps(e, loc.last_offset)
        THEN loc \* line 320: continue
        ELSE IF DecodeOk(gap) /\ DecodeOk(own)
        THEN LET r == RenderEntity(e, escape(Decode(own)))
             IN  [html |-> loc.html \o escape(Decode(gap)) \o r.out,
                  last_offset |-> NextOffset(e, r.skip),
                  raised |-> FALSE]
        ELSE [loc EXCEPT !.raised = TRUE]

\* lines 377-379
Joined(bytes, loc) ==
    IF DecodeOk(From(bytes, loc.last_offset))
    THEN Returned(loc.html \o TrailingText(bytes, loc.last_offset))
    ELSE Failure

RECURSIVE Loop(_, _, _)
Loop(bytes, loc, ents) ==
    IF loc.raised THEN Failure
    ELSE IF ents = <<>> THEN Joined(bytes, loc)
    ELSE Loop(bytes, LoopBody(bytes, loc, Rescale(Head(ents))), Tail(ents))

\* lines 297-309: telegram_to_matrix(text, entities), as a function of the
\* values its arguments have at the call
telegram_to_matrix(txt, ents) ==
    IF ents = <<>> THEN Returned(txt)
    ELSE Loop(Encode(txt), [html |-> <<>>, last_offset |-> 0, raised |-> FALSE], ents)

\* lines 315-316 write the rescaled entity back into the caller's list
Written(e) ==
    IF Stored THEN [tg_entities EXCEPT ![tg_i] = e] ELSE Append(tg_entities, e)

\* lines 297-313: telegram_to_matrix(text, entities) is called
Call ==
    /\ tg_pc = "idle"
    /\ tg_calls' = 1
    /\ \E empty \in BOOLEAN :
         IF empty
         THEN /\ tg_pc' = "done"
              /\ tg_result' = Returned(tg_text)
              /\ UNCHANGED <<tg_bytes, html, last_offset, tg_i>>
         ELSE /\ tg_pc' = "loop"
              /\ tg_bytes' = Encode(tg_text)
              /\ html' = <<>>
              /\ last_offset' = 0
              /\ tg_i' = 1
              /\ tg_result' = Failure
    /\ UNCHANGED <<tg_text, tg_entities, tg_first>>
    /\ UNCHANGED <<mxvars, evvars, rtvars, cmdvars>>

\* the caller calls telegram_to_matrix again with the same text and the same
\* entity objects
CallAgain ==
    /\ tg_pc = "done" /\ tg_calls = 1
    /\ tg_calls' = 2
    /\ tg_first' = tg_result
    /\ IF tg_entities = <<>>
       THEN /\ tg_pc' = "done"
            /\ tg_result' = Returned(tg_text)
            /\ UNCHANGED <<tg_bytes, html, last_offset, tg_i>>
       ELSE /\ tg_pc' = "loop"
            /\ tg_bytes' = Encode(tg_text)
            /\ html' = <<>>
            /\ last_offset' = 0
            /\ tg_i' = 1
            /\ tg_result' = Failure
    /\ UNCHANGED <<tg_text, tg_entities>>
    /\ UNCHANGED <<mxvars, evvars, rtvars, cmdvars>>

\* lines 314-376: one iteration of the loop, on the entity object e0; a decode
\* that raises ends the call (lines 300-304 log and return None)
Iterate(e0) ==
    LET e == Rescale(e0)
        loc == LoopBody(tg_bytes, [html |-> html, last_offset |-> last_offset,
                                   raised |-> FALSE], e)
    IN  /\ tg_entities' = Written(e)
        /\ html' = loc.html
        /\ last_offset' = loc.last_offset
        /\ IF loc.raised
           THEN tg_pc' = "done" /\ tg_result' = Failure /\ tg_i' = tg_i
           ELSE tg_pc' = tg_pc /\ tg_result' = tg_result /\ tg_i' = tg_i + 1
        /\ UNCHANGED <<tg_text, tg_bytes, tg_calls, tg_first>>
        /\ UNCHANGED <<mxvars, evvars, rtvars, cmdvars>>

\* the loop reaches the next entity of the caller's list
Visit ==
    /\ tg_pc = "loop"
    /\ \/ Stored /\ Iterate(tg_entities[tg_i])
       \/ /\ ~Stored /\ tg_calls = 1 /\ Len(tg_entities) < MaxSpans
          /\ \E e \in SpansOf(SpanShapes, tg_text) : InBounds(e, tg_text) /\ Iterate(e)

\* lines 377-379: the list is exhausted (a decode that raises: lines 300-304)
Finish ==
    /\ tg_pc = "loop" /\ ~Stored /\ tg_entities # <<>>
    /\ tg_pc' = "done"
    /\ LET loc == [html |-> html, last_offset |-> last_offset, raised |-> FALSE]
       IN  /\ tg_result' = Joined(tg_bytes, loc)
           /\ html' = IF tg_result'.ok THEN tg_result'.html ELSE html
    /\ UNCHANGED <<tg_text, tg_entities, tg_bytes, last_offset, tg_i, tg_calls, tg_first>>
    /\ UNCHANGED <<mxvars, evvars, rtvars, cmdvars>>

\* the texts of at most n characters among chars
RECURSIVE TextsOfLen(_, _)
TextsOfLen(chars, n) ==
    IF n = 0 THEN {<<>>}
    ELSE {<<c>> \o t : c \in chars, t \in TextsOfLen(chars, n - 1)}
TextsUpTo(chars, n) == UNION {TextsOfLen(chars, k) : k \in 0..n}

(* ----------------------- telegram_event_to_matrix --------------------- *)
\* source.tgid, and the rows of DBMessage: (tgid, tg_space) -> (mxid, mx_room)
SourceTgid == 1
DBMessages ==
    { [tgid |-> 7, tg_space |-> 1, mxid |-> <<"$", "e">>, mx_room |-> <<"!", "r">>],
      [tgid |-> 8, tg_space |-> 5, mxid |-> <<"$", "f">>, mx_room |-> <<"!", "c">>] }
DBMessageGet(tgid, tg_space) == {m \in DBMessages : m.tgid = tgid /\ m.tg_space = tg_space}

FwdOpen == <<"F", "o", "r", "w", "a", "r", "d", "e", "d", " ", "m", "e", "s", "s", "a", "g", "e", " ", "f", "r", "o", "m", " ", "<", "b", ">">>
FwdMid == <<"<", "/", "b", ">", "<", "b", "r", "/", ">">>
BlockquoteOpen == <<"<", "b", "l", "o", "c", "k", "q", "u", "o", "t", "e", ">">>
BlockquoteClose == <<"<", "/", "b", "l", "o", "c", "k", "q", "u", "o", "t", "e", ">">>
UnknownUser == <<"U", "n", "k", "n", "o", "w", "n", " ", "u", "s", "e", "r">>
EditMarker == <<"<", "u", ">", "E", "d", "i", "t", ":", "<", "/", "u", ">", " ">>
ReplyWord == <<"R", "e", "p", "l", "y">>
EditWord == <<"E", "d", "i", "t">>
ToWord == <<" ", "t", "o", " ">>
\* line 279: a plain string literal, its {reply_text} is not substituted
FailedQuote == <<"{", "r", "e", "p", "l", "y", "_", "t", "e", "x", "t", "}", " ", "t", "o", " ", "u", "n", "k", "n", "o", "w", "n", " ", "u", "s", "e", "r", " ", "<", "e", "m", ">", "(", "F", "a", "i", "l", "e", "d", " ", "t", "o", " ", "f", "e", "t", "c", "h", " ", "m", "e", "s", "s", "a", "g", "e", ")", "<", "/", "e", "m", ">", ":", "<", "b", "r", "/", ">">>
PostTextOpen == <<NL, "-", " ">>
PostOpen == <<"<", "b", "r", "/", ">", "<", "i", ">", "-", " ", "<", "u", ">">>
PostClose == <<"<", "/", "u", ">", "<", "/", "i", ">">>
Br == <<"<", "b", "r", "/", ">">>

\* f"<a href='https://matrix.to/#/{target}'>{shown}</a>"
Link(target, shown) == AnchorOpen \o MatrixTo \o target \o AttrEnd \o shown \o AnchorClose

RECURSIVE ReplaceNL(_)
\* line 292: html.replace("\n", "<br/>")
ReplaceNL(s) ==
    IF Len(s) = 0 THEN <<>>
    ELSE IF Len(s) = 1 THEN (IF s[1] = NL THEN Br ELSE s)
    ELSE LET half == Len(s) \div 2
         IN  ReplaceNL(SubSeq(s, 1, half)) \o ReplaceNL(SubSeq(s, half + 1, Len(s)))

\* Python truthiness of html: neither None nor ""
HtmlTruthy(h) == h.ok /\ h.html # <<>>
\* html or escape(text)
HtmlOr(h, txt) == IF HtmlTruthy(h) THEN h.html ELSE escape(txt)

RECURSIVE Reached(_, _, _)
\* lines 314-316: the caller's entity list after the call, every entity the
\* loop reached being rescaled in place
Reached(bytes, loc, ents) ==
    IF ents = <<>> THEN <<>>
    ELSE LET e == Rescale(Head(ents))
             next == LoopBody(bytes, loc, e)
         IN  <<e>> \o (IF next.raised THEN Tail(ents)
                       ELSE Reached(bytes, next, Tail(ents)))
AfterCall(txt, ents) ==
    Reached(Encode(txt), [html |-> <<>>, last_offset |-> 0, raised |-> FALSE], ents)

\* what main_intent.get_event answers: an exception of the request, or an
\* event whose content and sender may be missing
EventReply(raises, content, sender) ==
    [raises |-> raises, content |-> content, sender |-> sender]
NoReply == EventReply("", "absent", None)
EventReplies ==
    { EventReply("", "formatted_body", <<"@", "p">>),
      EventReply("", "body", <<"@", "s">>),
      EventReply("", "absent", <<"@", "s">>),
      EventReply("", "empty", <<"@", "s">>),
      EventReply("", "body", None),
      EventReply("MatrixRequestError", "absent", None),
      EventReply("ValueError", "absent", None) }
FormattedBody == <<"<", "b", ">", "q", "<", "/", "b", ">">>
PlainBody == <<"q">>

\* lines 265-270: the exception these lines raise on the reply, "" if none
FetchError(r) ==
    IF r.raises # "" THEN r.raises
    ELSE IF r.content \in {"absent", "empty"} THEN "KeyError"
    ELSE IF r.sender = None THEN "KeyError"
    ELSE ""

\* a variant of the clause below: except MatrixRequestError
CaughtRequestErrorOnly(exc) == exc = "MatrixRequestError"
\* line 278: except (ValueError, KeyError, MatrixRequestError)
Caught(exc) == exc \in {"ValueError", "KeyError", "MatrixRequestError"}

\* lines 266-277: the quote of a fetched event
Quote(r, msg, opts) ==
    LET body == IF r.content = "formatted_body" THEN FormattedBody ELSE PlainBody
        puppet == PuppetGetByMxid(r.sender)
        displayname == IF Found(puppet) THEN The(puppet).displayname ELSE r.sender
        reply_to_user == Link(r.sender, displayname)
        reply_to_msg == IF opts.message_link_in_reply
                        THEN Link(msg.mx_room \o <<"/">> \o msg.mxid, opts.reply_text)
                        ELSE ReplyWord
    IN  reply_to_msg \o ToWord \o reply_to_user
            \o BlockquoteOpen \o body \o BlockquoteClose

\* lines 247-248
Forwarded(fwd_from, h) ==
    FwdOpen \o (IF fwd_from = None THEN UnknownUser ELSE fwd_from) \o FwdMid
        \o BlockquoteOpen \o h \o BlockquoteClose

\* lines 251-253
Space(evt) ==
    IF evt.is_message /\ evt.channel_id # NoId THEN evt.channel_id ELSE SourceTgid

\* lines 224-226
Convert ==
    /\ ev_pc = "called"
    /\ ev_text' = ev_evt.message
    /\ IF ev_evt.entities # <<>>
       THEN /\ ev_html' = telegram_to_matrix(ev_evt.message, ev_evt.entities)
            /\ ev_evt' = [ev_evt EXCEPT !.entities = AfterCall(ev_evt.message, @)]
       ELSE /\ ev_html' = Failure
            /\ ev_evt' = ev_evt
    /\ ev_relates_to' = None
    /\ ev_pc' = "forward"
    /\ UNCHANGED <<ev_opts, ev_msg, ev_fetch, ev_fetches>>
    /\ UNCHANGED <<tgvars, mxvars, rtvars, cmdvars>>

\* lines 228-248, up to the await of line 240 when it is reached
Forward ==
    /\ ev_pc = "forward"
    /\ LET from_id == ev_evt.fwd_from
           user == UserGetByTgid(from_id)
           puppet == PuppetGet(from_id)
           h == HtmlOr(ev_html, ev_text)
       IN  IF from_id = NoId
           THEN ev_pc' = "reply" /\ ev_html' = ev_html
           ELSE IF Found(user)
           THEN /\ ev_pc' = "reply"
                /\ ev_html' = Returned(Forwarded(Link(The(user).mxid, The(user).mxid), h))
           ELSE IF Found(puppet) /\ The(puppet).displayname # None
           THEN /\ ev_pc' = "reply"
                /\ ev_html' = Returned(Forwarded(Link(The(puppet).mxid,
                                                      The(puppet).displayname), h))
           ELSE ev_pc' = "get_entity" /\ ev_html' = Returned(h)
    /\ UNCHANGED <<ev_evt, ev_opts, ev_text, ev_relates_to, ev_msg, ev_fetch, ev_fetches>>
    /\ UNCHANGED <<tgvars, mxvars, rtvars, cmdvars>>

\* lines 240-248: source.client.get_entity answers None or an entity, whose
\* display name Puppet.get_displayname gives
EntityArrives ==
    /\ ev_pc = "get_entity"
    /\ \E name \in {None, <<"N">>} :
         ev_html' = Returned(Forwarded(name, ev_html.html))
    /\ ev_pc' = "reply"
    /\ UNCHANGED <<ev_evt, ev_opts, ev_text, ev_relates_to, ev_msg, ev_fetch, ev_fetches>>
    /\ UNCHANGED <<tgvars, mxvars, rtvars, cmdvars>>

\* a variant of the choice below that quotes whatever native_replies says
ReplyModeQuotesAlways(msg, opts) == IF ~Found(msg) THEN "none" ELSE "quoted"
\* lines 255-264: how a reply is rendered
ReplyMode(msg, opts) ==
    IF ~Found(msg) THEN "none"
    ELSE IF opts.native_replies THEN "native"
    ELSE "quoted"

\* lines 250-265, up to the await of line 265 when it is reached
Reply ==
    /\ ev_pc = "reply"
    /\ LET msg == IF ev_evt.reply_to_msg_id # NoId
                  THEN DBMessageGet(ev_evt.reply_to_msg_id, Space(ev_evt))
                  ELSE {}
       IN  /\ ev_msg' = msg
           /\ IF ReplyMode(msg, ev_opts) = "none"
              THEN /\ ev_pc' = "post"
                   /\ UNCHANGED <<ev_html, ev_relates_to, ev_fetches>>
              ELSE IF ReplyMode(msg, ev_opts) = "native"
              THEN /\ ev_pc' = "post"
                   /\ ev_relates_to' = [event_id |-> The(msg).mxid,
                                        room_id |-> The(msg).mx_room]
                   /\ ev_html' = IF ev_opts.reply_text = EditWord
                                 THEN Returned(EditMarker \o HtmlOr(ev_html, ev_text))
                                 ELSE ev_html
                   /\ UNCHANGED ev_fetches
              ELSE /\ ev_pc' = "get_event"
                   /\ ev_fetches' = ev_fetches + 1
                   /\ UNCHANGED <<ev_html, ev_relates_to>>
    /\ UNCHANGED <<ev_evt, ev_opts, ev_text, ev_fetch>>
    /\ UNCHANGED <<tgvars, mxvars, rtvars, cmdvars>>

\* lines 265-283: get_event answers; an exception line 278 does not catch
\* leaves the coroutine
EventArrives ==
    /\ ev_pc = "get_event"
    /\ \E r \in EventReplies :
         /\ ev_fetch' = r
         /\ IF FetchError(r) = ""
            THEN /\ ev_pc' = "post"
                 /\ ev_html' = Returned(Quote(r, The(ev_msg), ev_opts)
                                            \o HtmlOr(ev_html, ev_text))
            ELSE IF Caught(FetchError(r))
            THEN /\ ev_pc' = "post"
                 /\ ev_html' = Returned(FailedQuote \o HtmlOr(ev_html, ev_text))
            ELSE /\ ev_pc' = "raised"
                 /\ ev_html' = ev_html
    /\ UNCHANGED <<ev_evt, ev_opts, ev_text, ev_relates_to, ev_msg, ev_fetches>>
    /\ UNCHANGED <<tgvars, mxvars, rtvars, cmdvars>>

\* lines 285-294
Return ==
    /\ ev_pc = "post"
    /\ LET signed == ev_evt.is_message /\ ev_evt.post /\ ev_evt.post_author # None
           h == IF signed
                THEN Returned(HtmlOr(ev_html, ev_text)
                                  \o PostOpen \o ev_evt.post_author \o PostClose)
                ELSE ev_html
       IN  /\ ev_text' = IF signed THEN ev_text \o PostTextOpen \o ev_evt.post_author
                         ELSE ev_text
           /\ ev_html' = IF HtmlTruthy(h) THEN Returned(ReplaceNL(h.html)) ELSE h
    /\ ev_pc' = "returned"
    /\ UNCHANGED <<ev_evt, ev_opts, ev_relates_to, ev_msg, ev_fetch, ev_fetches>>
    /\ UNCHANGED <<tgvars, mxvars, rtvars, cmdvars>>

\* the events and options a caller can pass
EventChars == {"x", "<", NL, Astral}
Events ==
    {[message |-> m, entities |-> es, fwd_from |-> f, reply_to_msg_id |-> r,
      is_message |-> k[1], channel_id |-> k[2], post |-> k[3], post_author |-> a] :
        m \in TextsUpTo(EventChars, MaxEventTextLen),
        es \in {<<>>, <<Entity("Bold", 0, 1, None, None, NoId)>>},
        f \in {NoId, 1, 2, 3, UnknownTgid},
        r \in {NoId, 7, 8},
        k \in {<<TRUE, NoId, TRUE>>, <<TRUE, 5, FALSE>>, <<FALSE, NoId, TRUE>>},
        a \in {None, <<"a">>}}
Options ==
    [native_replies : BOOLEAN, message_link_in_reply : BOOLEAN,
     reply_text : {ReplyWord, EditWord}]

\* telegram_event_to_matrix(evt, source, ...) was called with evt and opts
EventCalled(evt, opts) ==
    /\ ev_pc = "called"
    /\ ev_evt = evt
    /\ ev_opts = opts
    /\ ev_text = <<>>
    /\ ev_html = Failure
    /\ ev_relates_to = None
    /\ ev_msg = {}
    /\ ev_fetch = NoReply
    /\ ev_fetches = 0

\* no event is being transformed
EventIdle ==
    /\ ev_pc = "idle"
    /\ ev_evt = [message |-> <<>>, entities |-> <<>>, fwd_from |-> NoId,
                 reply_to_msg_id |-> NoId, is_message |-> FALSE,
                 channel_id |-> NoId, post |-> FALSE, post_author |-> None]
    /\ ev_opts = [native_replies |-> FALSE, message_link_in_reply |-> FALSE,
                  reply_text |-> ReplyWord]
    /\ ev_text = <<>>
    /\ ev_html = Failure
    /\ ev_relates_to = None
    /\ ev_msg = {}
    /\ ev_fetch = NoReply
    /\ ev_fetches = 0

(* ---------------------- HTMLParser.feed, there and back --------------- *)
\* what \s matches among the characters of the model
Whitespace == {" ", NL}
FirstLt(raw) ==
    IF \E i \in 1..Len(raw) : raw[i] = "<"
    THEN CHOOSE i \in 1..Len(raw) : raw[i] = "<" /\ \A j \in 1..(i - 1) : raw[j] # "<"
    ELSE 0
\* HTMLParser.goahead: the text holds an "&" that no whitespace or ";"
\* follows, so it may be a character reference cut in half
AmpPending(raw) ==
    \E i \in 1..Len(raw) :
        /\ raw[i] = "&"
        /\ \A j \in i..Len(raw) : raw[j] \notin Whitespace \cup {";"}

\* what [a-zA-Z] matches among the characters of the markup fed (no capitals)
Letters ==
    {"a", "b", "c", "d", "e", "f", "g", "h", "i", "j", "k", "l", "m", "n", "o",
     "p", "q", "r", "s", "t", "u", "v", "w", "x", "y", "z"}
\* the position of the first c in s, or 0
First(s, c) ==
    IF \E i \in 1..Len(s) : s[i] = c
    THEN CHOOSE i \in 1..Len(s) : s[i] = c /\ \A j \in 1..(i - 1) : s[j] # c
    ELSE 0
\* the tag names _telegram_to_matrix writes for Bold, Italic, Code and Pre
Spelling(tag) ==
    CASE tag = "strong" -> <<"s", "t", "r", "o", "n", "g">>
      [] tag = "em" -> <<"e", "m">>
      [] tag = "code" -> <<"c", "o", "d", "e">>
      [] tag = "pre" -> <<"p", "r", "e">>
TagName(chars) ==
    IF \E t \in {"strong", "em", "code", "pre"} : Spelling(t) = chars
    THEN CHOOSE t \in {"strong", "em", "code", "pre"} : Spelling(t) = chars
    ELSE "?"
ClassEq == <<"c", "l", "a", "s", "s", "=", "'">>
\* HTMLParser.parse_starttag on a complete start tag, body being what stands
\* between "<" and ">": a name, then nothing or one attribute class='...'
\* (its value is unescaped)
StartTagOf(body) ==
    LET sp == First(body, " ")
        rest == From(body, sp)
    IN  IF sp = 0 THEN StartTok(TagName(body), NoAttrs)
        ELSE IF StartsWith(rest, ClassEq) /\ Len(rest) > Len(ClassEq)
                    /\ rest[Len(rest)] = "'"
        THEN StartTok(TagName(SubSeq(body, 1, sp - 1)),
                      Attrs({"class"}, None,
                            unescape(SubSeq(rest, Len(ClassEq) + 1, Len(rest) - 1))))
        ELSE StartTok(TagName(SubSeq(body, 1, sp - 1)), NoAttrs)

RECURSIVE feed(_)
\* line 181: parser.feed(html) for markup whose tags are those
\* _telegram_to_matrix writes for Bold, Italic, Code and Pre, and in which no
\* other "<" is followed by a letter, "/", "!" or "?": the tags and the text
\* chunks HTMLParser hands to the parser (with convert_charrefs, the chunks
\* are already unescaped once); what it keeps in its buffer waiting for more
\* input is never handed over, close() is not called
feed(raw) ==
    IF raw = <<>> THEN <<>>
    ELSE LET j == FirstLt(raw)
             before == IF j > 1 THEN <<DataTok(unescape(SubSeq(raw, 1, j - 1)))>>
                       ELSE <<>>
             after == From(raw, j)
             gt == First(after, ">")
         IN  IF j = 0
             THEN IF AmpPending(raw) THEN <<>> ELSE <<DataTok(unescape(raw))>>
             ELSE IF j = Len(raw) THEN before
             ELSE IF Head(after) \in Letters
             THEN IF gt = 0 THEN before
                  ELSE before \o <<StartTagOf(SubSeq(after, 1, gt - 1))>>
                           \o feed(From(after, gt))
             ELSE IF Head(after) = "/"
             THEN IF gt = 0 THEN before
                  ELSE before \o <<EndTok(TagName(SubSeq(after, 2, gt - 1)))>>
                           \o feed(From(after, gt))
             ELSE before \o <<DataTok(<<"<">>)>> \o feed(From(raw, j))

\* lines 178-182: matrix_to_telegram(html): the parser it returns text and
\* entities of
matrix_to_telegram(markup) == Parsed(feed(markup))

PlainChars == {"1", "<", "&", NL}
\* markup without tags: texts as they are, and texts escaped
PlainMarkups ==
    TextsUpTo(PlainChars, MaxPlainLen)
        \cup {escape(t) : t \in TextsUpTo(PlainChars, MaxPlainLen)}

\* the caller hands its markup (direction "mx": rt_in, direction "tg": what
\* telegram_to_matrix returned) to matrix_to_telegram
ThereParse ==
    /\ \/ rt_pc = "start" /\ rt_dir = "mx" /\ rt_pc' = "half"
             /\ Becomes(matrix_to_telegram(rt_in)) /\ fed' = feed(rt_in)
       \/ rt_pc = "half" /\ rt_dir = "tg" /\ rt_pc' = "done"
             /\ Becomes(matrix_to_telegram(tg_result.html)) /\ fed' = feed(tg_result.html)
    /\ UNCHANGED <<rt_dir, rt_in, rt_spans>>
    /\ UNCHANGED <<tgvars, evvars, cmdvars>>

\* telegram_to_matrix(txt, ents) runs from call to return
Render(txt, ents) ==
    /\ tg_pc' = "done"
    /\ tg_text' = txt
    /\ tg_entities' = AfterCall(txt, ents)
    /\ tg_result' = telegram_to_matrix(txt, ents)
    /\ tg_calls' = 1
    /\ UNCHANGED <<tg_bytes, html, last_offset, tg_i, tg_first>>

\* the caller hands its text and entities (direction "tg": rt_in and no
\* entity, direction "mx": what matrix_to_telegram returned) to
\* telegram_to_matrix
ThereRender ==
    /\ \/ rt_pc = "start" /\ rt_dir = "tg" /\ rt_pc' = "half" /\ Render(rt_in, <<>>)
       \/ rt_pc = "half" /\ rt_dir = "mx" /\ rt_pc' = "done" /\ Render(text, entities)
    /\ UNCHANGED <<rt_dir, rt_in, rt_spans>>
    /\ UNCHANGED <<mxvars, evvars, cmdvars>>

\* the caller hands a text and its entities to telegram_to_matrix
SpanRender ==
    /\ rt_pc = "start" /\ rt_dir = "sp" /\ rt_pc' = "half"
    /\ Render(rt_in, rt_spans)
    /\ UNCHANGED <<rt_dir, rt_in, rt_spans>>
    /\ UNCHANGED <<mxvars, evvars, cmdvars>>

\* and the markup that returned to matrix_to_telegram
SpanParse ==
    /\ rt_pc = "half" /\ rt_dir = "sp" /\ rt_pc' = "done"
    /\ tg_result.ok
    /\ Becomes(matrix_to_telegram(tg_result.html)) /\ fed' = feed(tg_result.html)
    /\ UNCHANGED <<rt_dir, rt_in, rt_spans>>
    /\ UNCHANGED <<tgvars, evvars, cmdvars>>

\* texts with entities: Bold, Italic, Code and Pre (with a language or with
\* none) of length >= 1, ascending, not overlapping, in the text's bounds
RoundChars == {"1", "<", NL}
RoundShapes ==
    {<<"Bold", None>>, <<"Italic", None>>, <<"Code", None>>, <<"Pre", <<>>>>,
     <<"Pre", <<"c">>>>}
RoundSpans(s) ==
    {e \in {Entity(k[1], o, l, k[2], None, NoId) :
                k \in RoundShapes, o \in 0..(Units(s) - 1), l \in 1..Units(s)} :
        InBounds(e, s)}
RoundLists(s) ==
    {q \in UNION {[1..n -> RoundSpans(s)] : n \in 0..MaxRoundSpans} :
        \A i, j \in DOMAIN q : i < j => q[i].offset + q[i].length <= q[j].offset}

RoundTripStart(dir, input) ==
    rt_pc = "start" /\ rt_dir = dir /\ rt_in = input /\ rt_spans = <<>>
RoundTripIdle == rt_pc = "idle" /\ rt_dir = "" /\ rt_in = <<>> /\ rt_spans = <<>>

(* --------------------------- commands/handler.py ---------------------- *)
\* the arguments of command_handler(needs_auth, management_only, needs_admin)
Guards(needs_auth, management_only, needs_admin) ==
    [needs_auth |-> needs_auth, management_only |-> management_only,
     needs_admin |-> needs_admin]
\* line 25: the defaults
DefaultGuards == Guards(TRUE, FALSE, FALSE)

\* a variant of the chain below that asks for the login first
RejectionLoginFirst(g, evt) ==
    IF g.needs_auth /\ ~evt.logged_in THEN "login"
    ELSE IF g.management_only /\ ~evt.is_management THEN "management"
    ELSE IF g.needs_admin /\ ~evt.is_admin THEN "admin"
    ELSE "none"
\* lines 28-34: the reply the wrapper sends instead of calling func, or "none"
Rejection(g, evt) ==
    IF g.management_only /\ ~evt.is_management THEN "management"
    ELSE IF g.needs_auth /\ ~evt.logged_in THEN "login"
    ELSE IF g.needs_admin /\ ~evt.is_admin THEN "admin"
    ELSE "none"

\* line 98: command.lower(), on the commands of the model
Lower(command) == IF command = "Ping" THEN "ping" ELSE command

\* lines 99-107: the handler handle looks up: a registered name, the sender's
\* pending command_status["next"], or the handler of unknown commands
LookedUp(registry, evt) ==
    IF Lower(evt.command) \in DOMAIN registry THEN Lower(evt.command)
    ELSE IF evt.has_next THEN "next"
    ELSE "unknown-command"

\* no command is being handled
CommandIdle ==
    /\ cmd_pc = "idle"
    /\ command_handlers = [n \in {"ping", "unknown-command"} |-> DefaultGuards]
    /\ cmd_evt = [command |-> "", is_management |-> FALSE, logged_in |-> FALSE,
                  is_admin |-> FALSE, has_next |-> FALSE]
    /\ cmd_command = ""
    /\ cmd_await = ""
    /\ cmd_replies = <<>>
    /\ cmd_invoked = <<>>

\* lines 95-107: handle(room, sender, command, args, is_management,
\* is_portal) builds the event and looks the handler up
Lookup ==
    /\ cmd_pc = "called"
    /\ cmd_pc' = "found"
    /\ cmd_command' = LookedUp(command_handlers, cmd_evt)
    /\ cmd_evt' = IF LookedUp(command_handlers, cmd_evt) = "next"
                  THEN [cmd_evt EXCEPT !.command = ""] \* line 103
                  ELSE cmd_evt
    /\ UNCHANGED <<command_handlers, cmd_await, cmd_replies, cmd_invoked>>
    /\ UNCHANGED <<tgvars, mxvars, evvars, rtvars>>

\* lines 27-35, called at line 109: the wrapper of a registered command
\* either replies (evt.reply, lines 54-63, calls send_notice) or calls func
Wrapper ==
    /\ cmd_pc = "found"
    /\ cmd_command \in DOMAIN command_handlers
    /\ cmd_pc' = "awaiting"
    /\ LET r == Rejection(command_handlers[cmd_command], cmd_evt)
       IN  IF r # "none"
           THEN /\ cmd_replies' = Append(cmd_replies, r)
                /\ cmd_await' = "send_notice"
                /\ UNCHANGED cmd_invoked
           ELSE /\ cmd_invoked' = Append(cmd_invoked, cmd_command)
                /\ cmd_await' = "func"
                /\ UNCHANGED cmd_replies
    /\ UNCHANGED <<command_handlers, cmd_evt, cmd_command>>
    /\ UNCHANGED <<tgvars, mxvars, evvars, rtvars>>

\* lines 104 and 109: the sender's pending function is called as it is
CallNext ==
    /\ cmd_pc = "found"
    /\ cmd_command = "next"
    /\ cmd_pc' = "awaiting"
    /\ cmd_invoked' = Append(cmd_invoked, "next")
    /\ cmd_await' = "func"
    /\ UNCHANGED <<command_handlers, cmd_evt, cmd_command, cmd_replies>>
    /\ UNCHANGED <<tgvars, mxvars, evvars, rtvars>>

\* how what handle awaits can end: a function returns, with or without a
\* reply of its own, or raises; send_notice returns or raises
Outcomes(awaited) ==
    IF awaited = "func" THEN {"returns", "replies", "FloodWaitError", "Exception"}
    ELSE {"returns", "Exception"}

\* lines 108-115: the await of line 109 ends, and handle returns
Awaited ==
    /\ cmd_pc = "awaiting"
    /\ cmd_pc' = "returned"
    /\ \E outcome \in Outcomes(cmd_await) :
          cmd_replies' =
              CASE outcome = "returns" -> cmd_replies
                [] outcome = "replies" -> Append(cmd_replies, "answer")
                [] outcome = "FloodWaitError" -> Append(cmd_replies, "flood")
                [] outcome = "Exception" -> Append(cmd_replies, "fatal")
    /\ UNCHANGED <<command_handlers, cmd_evt, cmd_command, cmd_await, cmd_invoked>>
    /\ UNCHANGED <<tgvars, mxvars, evvars, rtvars>>

\* the registries, events and senders handle is called with
Registries ==
    [{"ping", "unknown-command"} ->
        {Guards(a, m, d) : a \in BOOLEAN, m \in BOOLEAN, d \in BOOLEAN}]
Commands == {"ping", "Ping", "pong"}
CommandEvents ==
    [command : Commands, is_management : BOOLEAN, logged_in : BOOLEAN,
     is_admin : BOOLEAN, has_next : BOOLEAN]

(* the inputs of the renderer *)
TextChars == {"x", "<", "&", Astral}

\* no call of telegram_to_matrix was made yet; its text is txt
RendererIdle(txt) ==
    /\ tg_pc = "idle"
    /\ tg_text = txt
    /\ tg_entities = <<>>
    /\ tg_bytes = <<>>
    /\ html = <<>>
    /\ last_offset = 0
    /\ tg_i = 0
    /\ tg_result = Failure
    /\ tg_calls = 0
    /\ tg_first = Failure

InitRender ==
    /\ \E txt \in TextsUpTo(TextChars, MaxTextLen) : RendererIdle(txt)
    /\ InitParser
    /\ CommandIdle
    /\ EventIdle
    /\ RoundTripIdle

NextRender == Call \/ Visit \/ Finish
SpecRender == InitRender /\ [][NextRender]_vars

NextRenderTwice == Call \/ Visit \/ Finish \/ CallAgain
SpecRenderTwice == InitRender /\ [][NextRenderTwice]_vars

(* the inputs of the parser *)
Mxid(name) == MatrixTo \o name
Href(url) == Attrs({"href"}, url, None)
InlineTokens ==
    {StartTok("b", NoAttrs), StartTok("strong", NoAttrs), StartTok("i", NoAttrs),
     EndTok("b"), EndTok("strong"), EndTok("i"),
     DataTok(<<"x">>), DataTok(<<Astral>>), DataTok(<<NL>>)}
ListTokens ==
    {StartTok("ol", NoAttrs), StartTok("ul", NoAttrs), StartTok("li", NoAttrs),
     StartTok("b", NoAttrs),
     EndTok("ol"), EndTok("ul"), EndTok("li"), EndTok("b"),
     DataTok(<<"x">>), DataTok(<<NL>>), DataTok(<<"x", NL>>)}
AnchorTokens ==
    {StartTok("a", Href(Mxid(<<"@", "p">>))), StartTok("a", Href(Mxid(<<"@", "q">>))),
     StartTok("a", Href(Mxid(<<"@", "z">>))), StartTok("a", Href(MailTo \o <<"m">>)),
     StartTok("a", Href(Http \o <<"h">>)), StartTok("a", NoAttrs),
     StartTok("b", NoAttrs), StartTok("li", NoAttrs),
     EndTok("a"), EndTok("b"),
     DataTok(<<"A">>), DataTok(<<Astral>>), DataTok(LtRef)}

InitParse ==
    RendererIdle(<<>>) /\ InitParser /\ EventIdle /\ RoundTripIdle /\ CommandIdle

NextInline ==
    \/ StartTag(InlineTokens, MaxInlineTokens)
    \/ Data(InlineTokens, MaxInlineTokens)
    \/ EndTag(InlineTokens, MaxInlineTokens)
SpecInline == InitParse /\ [][NextInline]_vars

NextList ==
    \/ StartTag(ListTokens, MaxListTokens)
    \/ Data(ListTokens, MaxListTokens)
    \/ EndTag(ListTokens, MaxListTokens)
SpecList == InitParse /\ [][NextList]_vars

NextAnchor ==
    \/ StartTag(AnchorTokens, MaxAnchorTokens)
    \/ Data(AnchorTokens, MaxAnchorTokens)
    \/ EndTag(AnchorTokens, MaxAnchorTokens)
SpecAnchor == InitParse /\ [][NextAnchor]_vars

\* an ordered list inside <b>, fed tag by tag: <b><ol>, then items
\* <li>text</li> each followed by a line break, then </ol></b>; the tags and
\* chunks that can follow what was fed so far
Items == Cardinality({i \in 1..Len(fed) : fed[i] = StartTok("li", NoAttrs)})
OrderedListNext ==
    IF fed = <<>> THEN {StartTok("b", NoAttrs)}
    ELSE LET last == fed[Len(fed)]
         IN  IF last = StartTok("b", NoAttrs) THEN {StartTok("ol", NoAttrs)}
             ELSE IF last = StartTok("ol", NoAttrs) \/ last = DataTok(<<NL>>)
             THEN (IF Items < MaxItems THEN {StartTok("li", NoAttrs)} ELSE {})
                      \cup (IF Items > 0 THEN {EndTok("ol")} ELSE {})
             ELSE IF last = StartTok("li", NoAttrs)
             THEN {DataTok(<<"x">>), DataTok(<<Astral>>)}
             ELSE IF last.kind = "data" THEN {EndTok("li")}
             ELSE IF last = EndTok("li") THEN {DataTok(<<NL>>)}
             ELSE IF last = EndTok("ol") THEN {EndTok("b")}
             ELSE {}
OrderedListTokens == 4 * MaxItems + 4

NextOrderedList ==
    \/ StartTag(OrderedListNext, OrderedListTokens)
    \/ Data(OrderedListNext, OrderedListTokens)
    \/ EndTag(OrderedListNext, OrderedListTokens)
SpecOrderedList == InitParse /\ [][NextOrderedList]_vars

InitEvent ==
    /\ RendererIdle(<<>>)
    /\ InitParser
    /\ CommandIdle
    /\ RoundTripIdle
    /\ \E evt \in Events, opts \in Options : EventCalled(evt, opts)

NextEvent == Convert \/ Forward \/ EntityArrives \/ Reply \/ EventArrives \/ Return
SpecEvent == InitEvent /\ [][NextEvent]_vars

InitRoundTrip ==
    /\ RendererIdle(<<>>)
    /\ InitParser
    /\ CommandIdle
    /\ EventIdle
    /\ \/ \E m \in PlainMarkups : RoundTripStart("mx", m)
       \/ \E t \in TextsUpTo(PlainChars, MaxPlainLen) : RoundTripStart("tg", t)

NextRoundTrip == ThereParse \/ ThereRender
SpecRoundTrip == InitRoundTrip /\ [][NextRoundTrip]_vars

InitSpanRoundTrip ==
    /\ RendererIdle(<<>>)
    /\ InitParser
    /\ CommandIdle
    /\ EventIdle
    /\ rt_pc = "start" /\ rt_dir = "sp"
    /\ rt_in \in TextsUpTo(RoundChars, MaxRoundLen)
    /\ rt_spans \in RoundLists(rt_in)

NextSpanRoundTrip == SpanRender \/ SpanParse
SpecSpanRoundTrip == InitSpanRoundTrip /\ [][NextSpanRoundTrip]_vars

InitCommand ==
    /\ RendererIdle(<<>>)
    /\ InitParser
    /\ EventIdle
    /\ RoundTripIdle
    /\ cmd_pc = "called"
    /\ command_handlers \in Registries
    /\ cmd_evt \in CommandEvents
    /\ cmd_command = ""
    /\ cmd_await = ""
    /\ cmd_replies = <<>>
    /\ cmd_invoked = <<>>

NextCommand == Lookup \/ Wrapper \/ CallNext \/ Awaited
SpecCommand == InitCommand /\ [][NextCommand]_vars

(* ----------------------- claims on the renderer ----------------------- *)
\* how many times pat occurs in s
CountSub(s, pat) ==
    Cardinality({i \in 1..(Len(s) - Len(pat) + 1) : SubSeq(s, i, i + Len(pat) - 1) = pat})

\* the step is an iteration of the loop; tg_entities'[tg_i] is its entity
IterationStep == tg_pc = "loop" /\ tg_entities' # tg_entities
Completed == tg_pc = "done" /\ tg_result.ok /\ tg_entities # <<>>
\* the characters of the text the (rescaled) entity e covers
Covered(e) == Decode(Slice(Encode(tg_text), e.offset, e.offset + e.length))
AfterSpan(e) == Decode(From(Encode(tg_text), e.offset + e.length))
OverlapCase ==
    /\ Completed /\ tg_calls = 1 /\ Len(tg_entities) = 2
    /\ tg_entities[1].type = "Bold" /\ tg_entities[1].offset = 0
    /\ tg_entities[2].offset < tg_entities[1].length

\* C1: an entity whose offset is strictly less than the cursor when the loop
\* reaches it appends nothing to the markup and leaves the cursor where it
\* was; so for [Bold at 0, any span starting inside it] the markup is the
\* Bold element followed by the rest of the text and nothing else.
C1_OverlapDropped ==
    /\ [][(IterationStep /\ tg_entities'[tg_i].offset < last_offset)
            => (html' = html /\ last_offset' = last_offset /\ tg_pc' = "loop")]_vars
    /\ [](OverlapCase =>
            \E rest \in {AfterSpan(tg_entities[1]), escape(AfterSpan(tg_entities[1]))} :
                tg_result.html = StrongOpen \o escape(Covered(tg_entities[1]))
                                     \o StrongClose \o rest)

C1_Witness ==
    /\ OverlapCase
    /\ tg_entities[2].offset > 0
    /\ AfterSpan(tg_entities[1]) # <<>>

Unresolvable(e) ==
    e.type = "Unknown" \/ (e.type = "MentionName" /\ e.user_id = UnknownTgid)

\* C2: an unresolved entity emits no element and leaves the cursor at its
\* offset, so its text appears in the markup once, as escaped plain text:
\* when every entity of the list is unresolved, the markup is the escaped text.
C2_UnresolvedIsEscapedText ==
    (Completed /\ \A i \in 1..Len(tg_entities) : Unresolvable(tg_entities[i]))
        => tg_result.html = escape(tg_text)

\* C3: every "<" and "&" of the text is escaped exactly once in the markup,
\* wherever it lies (no entity of the list being a BotCommand, whose first
\* character the renderer replaces).
C3_EscapedExactlyOnce ==
    (Completed /\ \A i \in 1..Len(tg_entities) : tg_entities[i].type # "BotCommand")
        => /\ CountSub(tg_result.html, LtRef) = CountSub(tg_text, <<"<">>)
           /\ CountSub(tg_result.html, AmpRef) = CountSub(tg_text, <<"&">>)

\* C10: a second call on the same text and the same entity list returns the
\* markup the first call returned.
C10_SecondCallSameMarkup ==
    (tg_pc = "done" /\ tg_calls = 2 /\ tg_first.ok) => tg_result = tg_first

(* ------------------------ claims on the parser ------------------------ *)
\* the UTF-16 code units of s: 2 for an astral codepoint, 1 for any other
UnitCount(s) == Len(s) + Cardinality({i \in 1..Len(s) : s[i] = Astral})

\* C4: in markup without lists, a span opened by a start tag gets as offset
\* the number of UTF-16 code units of the text accumulated before the tag
\* (an astral codepoint counting 2), and keeps that offset while it is under
\* construction and when it is appended to the result.
C4_OffsetInCodeUnits ==
    [][/\ \A t \in DOMAIN building_entities' :
            building_entities'[t].offset =
                IF t \in DOMAIN building_entities
                THEN building_entities[t].offset
                ELSE UnitCount(text)
       /\ \A i \in 1..Len(entities') :
            IF i <= Len(entities) THEN entities'[i] = entities[i]
            ELSE \E t \in DOMAIN building_entities :
                    entities'[i].offset = building_entities[t].offset]_vars

\* one U+1F600 and one ASCII character before a bold word: Bold at offset 3
C4_Witness ==
    /\ fed = <<DataTok(<<Astral>>), DataTok(<<"x">>), StartTok("b", NoAttrs),
               DataTok(<<"x">>), EndTok("b")>>
    /\ entities = <<Entity("Bold", 3, 1, None, None, NoId)>>

IsStart(tok, tag) == tok.kind = "start" /\ tok.tag = tag
\* the first item of an ordered list has just received its first text, either
\* directly or wrapped in <b>
FirstItemText ==
    /\ Len(fed) \in {3, 4}
    /\ IsStart(fed[1], "ol") /\ IsStart(fed[2], "li")
    /\ Len(fed) = 4 => IsStart(fed[3], "b")
    /\ fed[Len(fed)].kind = "data" /\ Strip(fed[Len(fed)].data) # <<>>

\* C5: the first item of an ordered list is emitted with the prefix "1. ",
\* also when its first content is wrapped in an inline tag.
C5_OrderedItemNumbered ==
    FirstItemText => text = <<"1", ".", " ">> \o Strip(fed[Len(fed)].data)

\* C9: every span of the returned list lies within the returned text:
\* offset >= 0, length >= 0, offset + length <= the text's UTF-16 length.
C9_SpansInBounds ==
    \A i \in 1..Len(entities) :
        /\ entities[i].offset >= 0
        /\ entities[i].length >= 0
        /\ entities[i].offset + entities[i].length <= UnitCount(text)

\* the parser was fed: anything, then an anchor with this href holding one
\* text chunk; no anchor span was under construction when the anchor opened
AnchorOver(href) ==
    /\ Len(fed) >= 3
    /\ fed[Len(fed) - 2] = StartTok("a", Href(href))
    /\ fed[Len(fed) - 1].kind = "data"
    /\ fed[Len(fed)] = EndTok("a")
    /\ "a" \notin DOMAIN Parsed(SubSeq(fed, 1, Len(fed) - 3)).building
Before == Parsed(SubSeq(fed, 1, Len(fed) - 3))
AtHandle == <<"@", "x">>

FetchFailed ==
    /\ ev_fetches = 1
    /\ ev_pc \in {"post", "returned", "raised"}
    /\ FetchError(ev_fetch) # ""

\* C7: in quoted rendering, when the fetch of the replied-to event fails
\* (request error, malformed answer, missing content or sender) the error
\* does not leave the transformer: the markup becomes the fallback quote
\* followed by the converted body, or by the escaped text when there is no
\* markup, and the transformer returns with markup that starts with the quote.
C7_FetchFailureQuoted ==
    /\ [][(ev_pc = "get_event" /\ FetchError(ev_fetch') # "")
            => /\ ev_pc' = "post"
               /\ ev_html' = Returned(FailedQuote \o
                                (IF ev_html.ok /\ ev_html.html # <<>>
                                 THEN ev_html.html ELSE escape(ev_text)))]_vars
    /\ [](ev_pc # "raised")
    /\ []((FetchFailed /\ ev_pc = "returned")
            => (ev_html.ok /\ StartsWith(ev_html.html, FailedQuote)))

\* a reply whose event comes back without content, on the text "<" without
\* entities
C7_Witness ==
    /\ ev_pc = "returned"
    /\ ev_fetches = 1
    /\ ev_fetch = EventReply("", "absent", <<"@", "s">>)
    /\ ev_evt.message = <<"<">> /\ ev_evt.entities = <<>>
    /\ ev_evt.fwd_from = NoId /\ ~ev_evt.is_message
    /\ ev_text = <<"<">>
    /\ ev_html = Returned(FailedQuote \o LtRef)
    /\ ev_relates_to = None

(* ------------------------ claims there and back ----------------------- *)
\* C8: for markup without tags, matrix_to_telegram then telegram_to_matrix
\* returns the markup it was given; for a text without entities,
\* telegram_to_matrix then matrix_to_telegram returns the text it was given
\* and no entity.
C8_PlainRoundTrip ==
    rt_pc = "done" =>
        IF rt_dir = "mx" THEN tg_result = Returned(rt_in)
        ELSE text = rt_in /\ entities = <<>>

\* C20: for a text with ascending, non-overlapping, in-bounds Bold, Italic,
\* Code and Pre spans, telegram_to_matrix then matrix_to_telegram returns
\* the text it was given and the spans it was given: same kinds, offsets,
\* lengths and languages.
C20_SpanRoundTrip ==
    (rt_pc = "done" /\ rt_dir = "sp") =>
        /\ text = rt_in
        /\ Len(entities) = Len(rt_spans)
        /\ \A i \in DOMAIN rt_spans :
              /\ entities[i].type = rt_spans[i].type
              /\ entities[i].offset = rt_spans[i].offset
              /\ entities[i].length = rt_spans[i].length
              /\ entities[i].language = rt_spans[i].language

(* --------------------- more claims on the parser ---------------------- *)
\* the step hands an end tag to the parser
EndStep == Len(fed') = Len(fed) + 1 /\ fed'[Len(fed')].kind = "end"
\* that end tag does not close the innermost open tag
Unmatched == open_tags = <<>> \/ open_tags[1] # fed'[Len(fed')].tag

\* C11: an end tag that does not match the innermost open tag (or arrives
\* when no tag is open) leaves the open tags, their metadata and the spans
\* under construction as they were.
C11_UnmatchedEndIgnored ==
    [][(EndStep /\ Unmatched)
        => UNCHANGED <<open_tags, open_tags_meta, building_entities>>]_vars

\* C12: at most one span of each kind is under construction at any time.
C12_OneSpanPerKind ==
    \A t1 \in DOMAIN building_entities : \A t2 \in DOMAIN building_entities :
        building_entities[t1].type = building_entities[t2].type => t1 = t2

\* C13: a matrix.to anchor of a known identity without a handle yields a
\* MentionName span with the identity's id, over the anchor's own text, which
\* is emitted unchanged.
C13_MentionByIdKeepsText ==
    AnchorOver(Mxid(<<"@", "q">>)) =>
        /\ text = Before.text \o unescape(fed[Len(fed) - 1].data)
        /\ entities = Append(Before.entities,
               Entity("MentionName", UnitCount(Before.text),
                      UnitCount(unescape(fed[Len(fed) - 1].data)), None, None, 3))

\* C14: the returned spans are in ascending order of offset.
C14_SpansAscending ==
    \A i \in 1..Len(entities) : \A j \in 1..Len(entities) :
        i < j => entities[i].offset <= entities[j].offset

\* the step hands a text chunk to the parser
DataStep == Len(fed') = Len(fed) + 1 /\ fed'[Len(fed')].kind = "data"
\* the parser is about to write a list prefix before that chunk (lines
\* 138-152): the innermost open tag is an item of a list, the flag says the
\* text so far ended a line, and the chunk is not empty once stripped
PrefixStep ==
    /\ DataStep
    /\ Len(open_tags) > 1 /\ open_tags[1] = "li" /\ open_tags[2] \in {"ul", "ol"}
    /\ previous_ended_line
    /\ Strip(unescape(fed'[Len(fed')].data)) # <<>>

\* C15: when a chunk is written with a list prefix, every span under
\* construction grows by the units of the stripped chunk alone, not by those
\* of the prefix.
C15_PrefixNotInLength ==
    [][PrefixStep =>
        \A t \in DOMAIN building_entities :
            building_entities'[t].length =
                building_entities[t].length
                    + UnitCount(Strip(unescape(fed'[Len(fed')].data)))]_vars

\* C16: when a chunk is written with a list prefix, the offset of every span
\* under construction moves by the units of the prefix that was written: by
\* what the text grew, less the stripped chunk.
C16_OffsetMovesByPrefix ==
    [][PrefixStep =>
        \A t \in DOMAIN building_entities :
            building_entities'[t].offset - building_entities[t].offset =
                UnitCount(text') - UnitCount(text)
                    - UnitCount(Strip(unescape(fed'[Len(fed')].data)))]_vars

\* C18: a list prefix is written only at the very start of the text or just
\* after a line break in it.
C18_PrefixOnlyAtLineStart ==
    [][PrefixStep => (text = <<>> \/ text[Len(text)] = NL)]_vars

(* --------------------- more claims on the renderer -------------------- *)
\* C19: in the markup of a completed call, every <font> element that was
\* opened is closed.
C19_FontClosed ==
    Completed => CountSub(tg_result.html, FontBlueOpen) = CountSub(tg_result.html, FontClose)

(* ------------------- more claims on the transformer ------------------- *)
\* the reply target of the event, as the message index knows it
Target ==
    {m \in DBMessages : /\ ev_evt.reply_to_msg_id # NoId
                        /\ m.tgid = ev_evt.reply_to_msg_id
                        /\ m.tg_space = (IF ev_evt.is_message /\ ev_evt.channel_id # NoId
                                         THEN ev_evt.channel_id ELSE SourceTgid)}
\* the reply was resolved (and, in quoted rendering, the event was awaited)
Resolved == ev_pc \in {"post", "returned"}
\* the markup before a step, or the escaped text when there is none
BodyBefore == IF ev_html.ok /\ ev_html.html # <<>> THEN ev_html.html ELSE escape(ev_text)
\* the step resolves the reply, or receives the answer of get_event
ReplyStep == ev_pc = "reply" /\ ev_pc' # "reply"
AnswerStep == ev_pc = "get_event" /\ ev_pc' # "get_event"

\* C17: a reply is resolved in exactly one way.  Target unknown: no link, no
\* fetch, markup untouched.  Target known, native replies: a link to the
\* target's event and room, no fetch.  Target known, no native replies: one
\* fetch, a quote prepended to the markup, no link.
C17_OneReplyMode ==
    /\ [](Resolved =>
            /\ Target = {} => (ev_relates_to = None /\ ev_fetches = 0)
            /\ (Target # {} /\ ev_opts.native_replies) =>
                  /\ \E m \in Target :
                        ev_relates_to = [event_id |-> m.mxid, room_id |-> m.mx_room]
                  /\ ev_fetches = 0
            /\ (Target # {} /\ ~ev_opts.native_replies) =>
                  (ev_relates_to = None /\ ev_fetches = 1))
    /\ [](ev_fetches <= 1)
    /\ [][(ReplyStep /\ Target = {}) => ev_html' = ev_html]_vars
    /\ [][(ReplyStep /\ Target # {} /\ ~ev_opts.native_replies)
            => (ev_pc' = "get_event" /\ ev_html' = ev_html)]_vars
    /\ [][AnswerStep =>
            /\ ev_html'.ok
            /\ Len(ev_html'.html) > Len(BodyBefore)
            /\ EndsWith(ev_html'.html, BodyBefore)
            /\ EndsWith(SubSeq(ev_html'.html, 1, Len(ev_html'.html) - Len(BodyBefore)),
                        BlockquoteClose)
                 \/ SubSeq(ev_html'.html, 1, Len(ev_html'.html) - Len(BodyBefore))
                        = FailedQuote]_vars

\* a reply to a known message without native replies, whose event was fetched
C17_Witness ==
    /\ ev_pc = "returned"
    /\ Target # {} /\ ~ev_opts.native_replies
    /\ ev_fetches = 1 /\ FetchError(ev_fetch) = ""
    /\ ev_relates_to = None
    /\ StartsWith(ev_html.html, ReplyWord \o ToWord)


(* ---------------------- claims on the command handler ----------------- *)
\* the wrapper of a registered command has run
WrapperRan ==
    cmd_pc \in {"awaiting", "returned"} /\ cmd_command \in DOMAIN command_handlers
\* every guard the command was registered with passes for the event
GuardsPass ==
    LET g == command_handlers[cmd_command]
    IN  /\ g.management_only => cmd_evt.is_management
        /\ g.needs_auth => cmd_evt.logged_in
        /\ g.needs_admin => cmd_evt.is_admin
\* the rejections among the replies sent
Rejections ==
    SelectSeq(cmd_replies, LAMBDA r : r \in {"management", "login", "admin"})
\* the first guard that fails, in the order management room, login, admin
FirstFailing ==
    LET g == command_handlers[cmd_command]
    IN  CASE g.management_only /\ ~cmd_evt.is_management -> "management"
          [] ~(g.management_only /\ ~cmd_evt.is_management)
                /\ g.needs_auth /\ ~cmd_evt.logged_in -> "login"
          [] OTHER -> "admin"

\* C21: once the wrapper of a registered command has run, the function was
\* invoked (once) if and only if every enabled guard passes, and then no
\* rejection was sent; otherwise the function was not invoked and exactly
\* one rejection was sent, that of the first failing guard in the order
\* management room, login, admin.  Before the wrapper runs nothing is
\* invoked and nothing is sent.
C21_GuardedInvocation ==
    /\ cmd_pc \in {"called", "found"} => (cmd_invoked = <<>> /\ cmd_replies = <<>>)
    /\ WrapperRan =>
          IF GuardsPass
          THEN cmd_invoked = <<cmd_command>> /\ Rejections = <<>>
          ELSE cmd_invoked = <<>> /\ Rejections = <<FirstFailing>>

\* a command registered with all three guards, sent outside a management
\* room by a sender who is neither logged in nor an admin, was rejected
C21_Witness ==
    /\ cmd_pc = "returned"
    /\ cmd_command = "ping"
    /\ command_handlers["ping"] = Guards(TRUE, TRUE, TRUE)
    /\ ~cmd_evt.is_management /\ ~cmd_evt.logged_in /\ ~cmd_evt.is_admin
    /\ cmd_replies = <<"management">>
    /\ cmd_invoked = <<>>

====
